---- MODULE Spec2Model ----
(***************************************************************************)
(* Model of the todo application: the Task model (app/src/models/task.py)  *)
(* and the task endpoints (app/src/routes/main.py).                        *)
(*                                                                         *)
(* Python strings are sequences of one-character strings.  Python values   *)
(* whose type the code inspects at run time (JSON values, the created_at   *)
(* entry of a dict) carry their type in a "type" field.                    *)
(***************************************************************************)
EXTENDS Integers, Sequences, FiniteSets, TLC

VARIABLES
    \* ---- the model layer (Task / TaskManager objects in use) ----
    op,            \* the last model-layer operation performed
    arg,           \* the description passed to that operation (or None)
    raised,        \* the exception that operation raised ("none" if it returned)
    task,          \* the Task object under consideration (or None)
    data,          \* the dict produced by task.to_dict() (or None)
    restored,      \* the Task returned by Task.from_dict(data) (or None)
    \* ---- the HTTP layer ----
    phase,         \* "idle" | "responded"
    request,       \* the request being answered (or None)
    response,      \* the response produced for it (or None)
    task_manager,  \* the attributes of the module-level TaskManager instance
    client_tasks,  \* ids of the tasks the client holds (storage is client-side)
    client_deleted \* ids of tasks the client held and has deleted

vars == <<op, arg, raised, task, data, restored,
          phase, request, response, task_manager, client_tasks, client_deleted>>

modelVars == <<op, arg, raised, task, data, restored>>
httpVars  == <<phase, request, response, task_manager, client_tasks, client_deleted>>

-----------------------------------------------------------------------------
(* Bounds *)

MaxLen == 3
MaxIdLen == 2
MaxSec == 1
MaxMicro == 1

-----------------------------------------------------------------------------
(* Strings *)

Whitespace == {" ", "\t"}
Alphabet == {"a"} \cup Whitespace

RECURSIVE StringsOfLen(_)
StringsOfLen(n) ==
    IF n = 0 THEN {<<>>}
    ELSE {Append(s, c) : s \in StringsOfLen(n - 1), c \in Alphabet}

StringsUpTo(n) == UNION {StringsOfLen(k) : k \in 0..n}

Strings == StringsUpTo(MaxLen)

RECURSIVE lstrip(_)
lstrip(s) ==
    IF s = <<>> THEN <<>>
    ELSE IF Head(s) \in Whitespace THEN lstrip(Tail(s))
    ELSE s

RECURSIVE rstrip(_)
rstrip(s) ==
    IF s = <<>> THEN <<>>
    ELSE IF s[Len(s)] \in Whitespace THEN rstrip(SubSeq(s, 1, Len(s) - 1))
    ELSE s

\* str.strip(): remove leading and trailing whitespace
strip(s) == rstrip(lstrip(s))

\* `needle in haystack` for two str values: substring test
IsSubstring(needle, haystack) ==
    \E i \in 0..(Len(haystack) - Len(needle)) :
        SubSeq(haystack, i + 1, i + Len(needle)) = needle

-----------------------------------------------------------------------------
(* Python values *)

None == [type |-> "NoneType"]

Ok(v) == [ok |-> TRUE, value |-> v, error |-> "none"]
Raise(e) == [ok |-> FALSE, value |-> None, error |-> e]

PyBool(b) == [type |-> "bool", b |-> b]
PyInt(n) == [type |-> "int", n |-> n]
PyStr(x) == [type |-> "str", s |-> x]
PyList(l) == [type |-> "list", l |-> l]
PyDict(f) == [type |-> "dict", d |-> f]

\* bool(v), as `not data` evaluates it
Truthy(v) ==
    CASE v.type = "NoneType" -> FALSE
      [] v.type = "bool" -> v.b
      [] v.type = "int" -> v.n # 0
      [] v.type = "str" -> v.s # <<>>
      [] v.type = "list" -> v.l # <<>>
      [] v.type = "dict" -> DOMAIN v.d # {}

\* `key in v` for a str key: key lookup in a dict, element test in a list,
\* substring test in a str, TypeError for a value that is not a container
Contains(key, v) ==
    CASE v.type = "dict" -> Ok(key \in DOMAIN v.d)
      [] v.type = "list" ->
            Ok(\E i \in 1..Len(v.l) : v.l[i].type = "str" /\ v.l[i].s = key)
      [] v.type = "str" -> Ok(IsSubstring(key, v.s))
      [] OTHER -> Raise("TypeError")

\* `v[key]` for a str key: only a dict can be indexed by a str
GetItem(v, key) ==
    CASE v.type = "dict" ->
            IF key \in DOMAIN v.d THEN Ok(v.d[key]) ELSE Raise("KeyError")
      [] OTHER -> Raise("TypeError")

-----------------------------------------------------------------------------
(* datetime *)

Datetimes == [sec : 0..MaxSec, us : 0..MaxMicro]

Digits == <<"0", "1", "2", "3", "4", "5", "6", "7", "8", "9">>
ToDigit(n) == Digits[n + 1]
FromDigit(c) == CHOOSE n \in 0..9 : Digits[n + 1] = c

isoformat_seconds(dt) == <<"T", ToDigit(dt.sec)>>

\* datetime.isoformat(): the fraction is written only when microsecond # 0
isoformat(dt) ==
    IF dt.us = 0 THEN <<"T", ToDigit(dt.sec)>>
    ELSE <<"T", ToDigit(dt.sec), ".", ToDigit(dt.us)>>

\* datetime.fromisoformat(): a missing fraction reads as microsecond 0
fromisoformat(s) ==
    IF Len(s) = 2 THEN [sec |-> FromDigit(s[2]), us |-> 0]
    ELSE [sec |-> FromDigit(s[2]), us |-> FromDigit(s[4])]

-----------------------------------------------------------------------------
(* Task *)

validate_description_nostrip(v) ==
    IF v = <<>> \/ strip(v) = <<>>
    THEN Raise("ValueError")
    ELSE Ok(v)

validate_description_nonempty(v) ==
    IF v = <<>>
    THEN Raise("ValueError")
    ELSE Ok(strip(v))

\* Task.validate_description: reject empty / whitespace-only, return stripped
validate_description(v) ==
    IF v = <<>> \/ strip(v) = <<>>
    THEN Raise("ValueError")
    ELSE Ok(strip(v))

\* Task(id=..., description=..., completed=..., created_at=...):
\* min_length=1 is checked first, then the field validator runs; a failure
\* of either surfaces as pydantic's ValidationError.
Task(id, description, completed, created_at) ==
    IF Len(description) < 1 THEN Raise("ValidationError")
    ELSE LET v == validate_description(description) IN
         IF ~v.ok THEN Raise("ValidationError")
         ELSE Ok([id |-> id, description |-> v.value,
                  completed |-> completed, created_at |-> created_at])

to_dict_no_created_at(t) ==
    [id |-> t.id,
     description |-> t.description,
     completed |-> t.completed]

\* Task.to_dict
to_dict(t) ==
    [id |-> t.id,
     description |-> t.description,
     completed |-> t.completed,
     created_at |-> [type |-> "str", s |-> isoformat(t.created_at)]]

\* the dict as from_dict leaves it: a str created_at is replaced in place
from_dict_data(d) ==
    IF d.created_at.type = "str"
    THEN [d EXCEPT !.created_at =
            [type |-> "datetime", dt |-> fromisoformat(d.created_at.s)]]
    ELSE d

\* Task.from_dict
from_dict(d) ==
    LET d2 == from_dict_data(d) IN
    Task(d2.id, d2.description, d2.completed, d2.created_at.dt)

\* uuid.uuid4() rendered as str: an element of a pool of identifiers
Uuids == {<<"u", "1">>, <<"u", "2">>}

\* TaskManager.create_task, with the generated id and datetime.now() as inputs
TaskManager_create_task(description, task_id, now) ==
    Task(task_id, description, FALSE, now)

\* TaskManager.validate_task_description
validate_task_description(description) ==
    description # <<>> /\ strip(description) # <<>>

-----------------------------------------------------------------------------
(* Model-layer operations, as the tests and callers use them *)

\* ids a caller passes to the constructor directly (id: str has no constraint)
DirectIds == {<<>>, <<"i", "d">>}

ModelInit ==
    /\ op = "none"
    /\ arg = None
    /\ raised = "none"
    /\ task = None
    /\ data = None
    /\ restored = None

\* Task(id=i, description=d, completed=c, created_at=t) called directly
Construct ==
    /\ op = "none"
    /\ \E i \in DirectIds, d \in Strings, c \in BOOLEAN, t \in Datetimes :
         LET r == Task(i, d, c, t) IN
         /\ op' = "Task"
         /\ arg' = d
         /\ raised' = r.error
         /\ task' = r.value
    /\ UNCHANGED <<data, restored>>
    /\ UNCHANGED httpVars

\* TaskManager().create_task(d)
CreateTask ==
    /\ op = "none"
    /\ \E d \in Strings, u \in Uuids, now \in Datetimes :
         LET r == TaskManager_create_task(d, u, now) IN
         /\ op' = "create_task"
         /\ arg' = d
         /\ raised' = r.error
         /\ task' = r.value
    /\ UNCHANGED <<data, restored>>
    /\ UNCHANGED httpVars

\* task.description = v : the model sets no validate_assignment and is not
\* frozen, so the attribute is stored as given
SetDescription ==
    /\ task # None
    /\ data = None
    /\ \E v \in Strings : task' = [task EXCEPT !.description = v]
    /\ op' = "setattr"
    /\ arg' = None
    /\ raised' = "none"
    /\ UNCHANGED <<data, restored>>
    /\ UNCHANGED httpVars

\* task.completed = b
SetCompleted ==
    /\ task # None
    /\ data = None
    /\ \E b \in BOOLEAN : task' = [task EXCEPT !.completed = b]
    /\ op' = "setattr"
    /\ arg' = None
    /\ raised' = "none"
    /\ UNCHANGED <<data, restored>>
    /\ UNCHANGED httpVars

\* data = task.to_dict()
ToDict ==
    /\ task # None
    /\ data = None
    /\ data' = to_dict(task)
    /\ op' = "to_dict"
    /\ arg' = None
    /\ raised' = "none"
    /\ UNCHANGED <<task, restored>>
    /\ UNCHANGED httpVars

\* restored = Task.from_dict(data)
FromDict ==
    /\ data # None
    /\ LET r == from_dict(data) IN
         /\ restored' = r.value
         /\ raised' = r.error
    /\ data' = from_dict_data(data)
    /\ op' = "from_dict"
    /\ arg' = None
    /\ UNCHANGED task
    /\ UNCHANGED httpVars

\* the objects go out of scope
Discard ==
    /\ op # "none"
    /\ op' = "none"
    /\ arg' = None
    /\ raised' = "none"
    /\ task' = None
    /\ data' = None
    /\ restored' = None
    /\ UNCHANGED httpVars

NextTask ==
    \/ Construct
    \/ CreateTask
    \/ SetDescription
    \/ SetCompleted
    \/ ToDict
    \/ FromDict
    \/ Discard

-----------------------------------------------------------------------------
(* Requests *)

DescriptionKey == <<"d", "e", "s", "c", "r", "i", "p", "t", "i", "o", "n">>
CompletedKey == <<"c", "o", "m", "p", "l", "e", "t", "e", "d">>
OtherKey == <<"o", "t", "h", "e", "r">>

\* A Content-Type header as its sequence of tokens: the media type first,
\* then its parameters.  <<>> is a request without the header.
ContentTypes ==
    { <<>>,
      <<"application/json">>,
      <<"application/json", "charset=utf-8">>,
      <<"application/vnd.api+json">>,
      <<"text/plain", "boundary=", "application/json">>,
      <<"application/x-www-form-urlencoded">> }

\* media types that start with application/ and end with +json
PlusJsonMimetypes == {"application/vnd.api+json"}
FormMimetypes == {"application/x-www-form-urlencoded"}

\* `'application/json' in request.content_type`
ContentTypeContains(ct, x) == \E i \in 1..Len(ct) : ct[i] = x

mimetype(ct) == IF ct = <<>> THEN "" ELSE ct[1]

\* request.is_json
is_json(req) ==
    \/ mimetype(req.content_type) = "application/json"
    \/ mimetype(req.content_type) \in PlusJsonMimetypes

\* request.get_json(): the parsed body; a body that does not parse (an empty
\* one included) raises BadRequest, a request that is not JSON
\* UnsupportedMediaType
get_json(req) ==
    IF ~is_json(req) THEN Raise("UnsupportedMediaType")
    ELSE IF req.body.kind = "json" THEN Ok(req.body.data)
    ELSE Raise("BadRequest")

\* request.form: the fields of a form-encoded body, else empty
form(req) ==
    IF mimetype(req.content_type) \in FormMimetypes /\ req.body.kind = "form"
    THEN req.body.data.d
    ELSE <<>>

\* request.form.get('description', '')
form_get(f, key, default) == IF key \in DOMAIN f THEN f[key] ELSE default

JsonScalars == {None, PyBool(TRUE), PyBool(FALSE), PyInt(0), PyInt(1)}

JsonLists == {PyList(<<>>), PyList(<<PyInt(1)>>), PyList(<<PyStr(DescriptionKey)>>),
              PyList(<<PyStr(CompletedKey)>>)}

EmptyBody == [kind |-> "empty", data |-> None]
MalformedBody == [kind |-> "malformed", data |-> None]
JsonBody(v) == [kind |-> "json", data |-> v]
FormBody(f) == [kind |-> "form", data |-> [type |-> "form", d |-> f]]

PostJsonValues ==
    JsonScalars \cup JsonLists
    \cup {PyStr(x) : x \in {<<>>, <<"a">>, DescriptionKey}}
    \cup {PyDict(<<>>), PyDict(OtherKey :> PyInt(1)),
          PyDict(CompletedKey :> PyBool(TRUE))}
    \cup {PyDict(DescriptionKey :> v) :
            v \in JsonScalars \cup {PyList(<<>>)} \cup {PyStr(x) : x \in Strings}}
    \cup {PyDict(DescriptionKey :> PyStr(x) @@ OtherKey :> PyInt(1)) :
            x \in {<<>>, <<"a">>, <<" ", "a">>}}

PostBodies ==
    {EmptyBody, MalformedBody}
    \cup {JsonBody(v) : v \in PostJsonValues}
    \cup {FormBody(<<>>)}
    \cup {FormBody(DescriptionKey :> x) : x \in Strings}

PutJsonValues ==
    JsonScalars \cup JsonLists
    \cup {PyStr(x) : x \in {<<>>, <<"a">>, CompletedKey}}
    \cup {PyDict(<<>>), PyDict(OtherKey :> PyInt(1)),
          PyDict(DescriptionKey :> PyStr(<<"a">>))}
    \cup {PyDict(CompletedKey :> v) :
            v \in JsonScalars \cup {PyStr(<<"a">>), PyList(<<>>)}}
    \cup {PyDict(CompletedKey :> PyBool(b) @@ OtherKey :> PyInt(1)) : b \in BOOLEAN}

PutBodies ==
    {EmptyBody, MalformedBody}
    \cup {JsonBody(v) : v \in PutJsonValues}
    \cup {FormBody(<<>>)}

DeleteBodies ==
    {EmptyBody, MalformedBody, JsonBody(PyDict(<<>>)),
     JsonBody(PyDict(CompletedKey :> PyBool(TRUE))), FormBody(<<>>)}

\* <task_id> of /api/tasks/<task_id>: the route matches a non-empty segment
PathIds == (StringsUpTo(MaxIdLen) \ {<<>>}) \cup Uuids

-----------------------------------------------------------------------------
(* Responses *)

\* jsonify(body), status
Json(body, status) ==
    [status |-> status, mimetype |-> "application/json", body |-> body]

\* render_template('index.html', **context), status
Html(context, status) ==
    [status |-> status, mimetype |-> "text/html", body |-> context]

-----------------------------------------------------------------------------
(* Handlers of routes/main.py *)

\* create_task(), the handler of POST /api/tasks, with the uuid and the clock
\* reading that TaskManager.create_task draws as inputs
create_task(req, u, now) ==
    IF req.content_type # <<>>
       /\ ContentTypeContains(req.content_type, "application/json")
    THEN
        IF ~is_json(req)
        THEN Json([error |-> "Content-Type must be application/json"], 400)
        ELSE LET j == get_json(req) IN
        IF ~j.ok THEN Json([error |-> "Internal server error"], 500)
        ELSE LET d == j.value IN
        IF ~Truthy(d) THEN Json([error |-> "Request body is required"], 400)
        ELSE LET c == Contains(DescriptionKey, d) IN
        IF ~c.ok THEN Json([error |-> "Internal server error"], 500)
        ELSE IF ~c.value
        THEN Json([error |-> "Description field is required"], 400)
        ELSE LET g == GetItem(d, DescriptionKey) IN
        IF ~g.ok THEN Json([error |-> "Internal server error"], 500)
        ELSE LET description == g.value IN
        IF description.type # "str"
        THEN Json([error |-> "Description must be a string"], 400)
        ELSE IF strip(description.s) = <<>>
        THEN Json([error |-> "Description cannot be empty or whitespace only"], 400)
        ELSE LET t == TaskManager_create_task(description.s, u, now) IN
        IF ~t.ok THEN Json([error |-> "Validation error"], 400)
        ELSE Json(to_dict(t.value), 201)
    ELSE
        LET description == strip(form_get(form(req), DescriptionKey, <<>>)) IN
        IF description = <<>>
        THEN Html([template |-> "index.html",
                   error |-> "Please enter a task description"], 400)
        ELSE LET t == TaskManager_create_task(description, u, now) IN
        IF ~t.ok
        THEN Html([template |-> "index.html", error |-> "Validation error"], 400)
        ELSE Html([template |-> "index.html", success |-> description], 201)

\* update_task(task_id), the handler of PUT /api/tasks/<task_id>
update_task(req) ==
    IF req.task_id = <<>> \/ strip(req.task_id) = <<>>
    THEN Json([error |-> "Task ID is required"], 400)
    ELSE IF ~is_json(req)
    THEN Json([error |-> "Content-Type must be application/json"], 400)
    ELSE LET j == get_json(req) IN
    IF ~j.ok THEN Json([error |-> "Internal server error"], 500)
    ELSE LET d == j.value IN
    IF ~Truthy(d) THEN Json([error |-> "Request body is required"], 400)
    ELSE LET c == Contains(CompletedKey, d) IN
    IF ~c.ok THEN Json([error |-> "Internal server error"], 500)
    ELSE IF ~c.value THEN Json([error |-> "Completed field is required"], 400)
    ELSE LET g == GetItem(d, CompletedKey) IN
    IF ~g.ok THEN Json([error |-> "Internal server error"], 500)
    ELSE LET completed == g.value IN
    IF completed.type # "bool"
    THEN Json([error |-> "Completed must be a boolean value"], 400)
    ELSE Json([id |-> req.task_id, completed |-> completed.b,
               message |-> "Task updated successfully"], 200)

delete_task_requires_json(req) ==
    IF req.task_id = <<>> \/ strip(req.task_id) = <<>>
    THEN Json([error |-> "Task ID is required"], 400)
    ELSE IF ~is_json(req)
    THEN Json([error |-> "Content-Type must be application/json"], 400)
    ELSE Json([id |-> req.task_id, message |-> "Task deleted successfully"], 200)

\* delete_task(task_id), the handler of DELETE /api/tasks/<task_id>
delete_task(req) ==
    IF req.task_id = <<>> \/ strip(req.task_id) = <<>>
    THEN Json([error |-> "Task ID is required"], 400)
    ELSE Json([id |-> req.task_id, message |-> "Task deleted successfully"], 200)

-----------------------------------------------------------------------------
(* The server answering requests, and the client keeping the task list *)

HttpInit ==
    /\ phase = "idle"
    /\ request = None
    /\ response = None
    /\ task_manager = <<>>
    /\ client_tasks = {}
    /\ client_deleted = {}

Init == ModelInit /\ HttpInit

PostTaskStoring ==
    /\ phase = "idle"
    /\ \E ct \in ContentTypes, b \in PostBodies, u \in Uuids, now \in Datetimes :
         LET req == [method |-> "POST", content_type |-> ct,
                     task_id |-> <<>>, body |-> b]
             res == create_task(req, u, now) IN
         /\ request' = req
         /\ response' = res
         /\ task_manager' = IF res.status = 201
                            THEN Append(task_manager, u)
                            ELSE task_manager
    /\ phase' = "responded"
    /\ UNCHANGED <<client_tasks, client_deleted>>
    /\ UNCHANGED modelVars

\* POST /api/tasks
PostTask ==
    /\ phase = "idle"
    /\ \E ct \in ContentTypes, b \in PostBodies, u \in Uuids, now \in Datetimes :
         LET req == [method |-> "POST", content_type |-> ct,
                     task_id |-> <<>>, body |-> b] IN
         /\ request' = req
         /\ response' = create_task(req, u, now)
    /\ phase' = "responded"
    /\ UNCHANGED <<task_manager, client_tasks, client_deleted>>
    /\ UNCHANGED modelVars

\* PUT /api/tasks/<task_id>
PutTask ==
    /\ phase = "idle"
    /\ \E ct \in ContentTypes, b \in PutBodies, id \in PathIds :
         LET req == [method |-> "PUT", content_type |-> ct,
                     task_id |-> id, body |-> b] IN
         /\ request' = req
         /\ response' = update_task(req)
    /\ phase' = "responded"
    /\ UNCHANGED <<task_manager, client_tasks, client_deleted>>
    /\ UNCHANGED modelVars

\* DELETE /api/tasks/<task_id>
DeleteTask ==
    /\ phase = "idle"
    /\ \E ct \in ContentTypes, b \in DeleteBodies, id \in PathIds :
         LET req == [method |-> "DELETE", content_type |-> ct,
                     task_id |-> id, body |-> b] IN
         /\ request' = req
         /\ response' = delete_task(req)
    /\ phase' = "responded"
    /\ UNCHANGED <<task_manager, client_tasks, client_deleted>>
    /\ UNCHANGED modelVars

\* The response reaches the client, which keeps the task list: a created task
\* is added to it, a deleted one removed from it.
Deliver ==
    /\ phase = "responded"
    /\ client_tasks' =
         IF request.method = "POST" /\ response.status = 201
            /\ response.mimetype = "application/json"
         THEN client_tasks \cup {response.body.id}
         ELSE IF request.method = "DELETE" /\ response.status = 200
         THEN client_tasks \ {request.task_id}
         ELSE client_tasks
    /\ client_deleted' =
         IF request.method = "DELETE" /\ response.status = 200
            /\ request.task_id \in client_tasks
         THEN client_deleted \cup {request.task_id}
         ELSE client_deleted
    /\ phase' = "idle"
    /\ request' = None
    /\ response' = None
    /\ UNCHANGED task_manager
    /\ UNCHANGED modelVars

Next ==
    \/ PostTask
    \/ PutTask
    \/ DeleteTask
    \/ Deliver

Spec == Init /\ [][Next]_vars

SpecTask == Init /\ [][NextTask]_vars

-----------------------------------------------------------------------------
(* Properties of the Task model *)

ValidTask(t) == t.description # <<>> /\ t.description = strip(t.description)

\* C3: TaskManager.create_task(d) with d non-empty after trimming succeeds and
\* returns a Task with description = d.strip(), completed = False and a
\* non-empty id.
C3_ValidCreation ==
    (op = "create_task" /\ strip(arg) # <<>>) =>
        /\ raised = "none"
        /\ task # None
        /\ task.description = strip(arg)
        /\ task.completed = FALSE
        /\ task.id # <<>>

C3_Witness ==
    /\ op = "create_task"
    /\ strip(arg) # <<>>
    /\ strip(arg) # arg
    /\ Len(strip(arg)) > 1
    /\ task # None

\* C4: TaskManager.create_task(d) with d empty or whitespace-only fails with a
\* validation error and returns no Task.
C4_InvalidRejection ==
    (op = "create_task" /\ strip(arg) = <<>>) =>
        /\ raised = "ValidationError"
        /\ task = None

C4_Witness ==
    /\ op = "create_task"
    /\ arg # <<>>
    /\ strip(arg) = <<>>
    /\ raised = "ValidationError"

\* C5: for every valid Task t, Task.from_dict(t.to_dict()) succeeds and yields
\* a Task with the same id, description, completed and created_at.
C5_RoundTrip ==
    (op = "from_dict" /\ ValidTask(task)) =>
        /\ raised = "none"
        /\ restored # None
        /\ restored.id = task.id
        /\ restored.description = task.description
        /\ restored.completed = task.completed
        /\ restored.created_at = task.created_at

C5_Witness ==
    /\ op = "from_dict"
    /\ ValidTask(task)
    /\ task.created_at.us # 0
    /\ task.completed
    /\ restored # None

\* C9: every existing Task has a description that is non-empty and equal to
\* its own trimmed form.
C9_TaskInvariant ==
    /\ task # None => ValidTask(task)
    /\ restored # None => ValidTask(restored)

-----------------------------------------------------------------------------
(* Properties of the endpoints *)

Responded(m) == phase = "responded" /\ request.method = m

ErrorShaped(res) == res.mimetype = "application/json" /\ DOMAIN res.body = {"error"}

\* a request whose media type is application/json
JsonRequest(req) ==
    /\ mimetype(req.content_type) = "application/json"
    /\ ContentTypeContains(req.content_type, "application/json")

IsObject(b) == b.kind = "json" /\ b.data.type = "dict"

HasStr(b, key) ==
    /\ IsObject(b)
    /\ key \in DOMAIN b.data.d
    /\ b.data.d[key].type = "str"

\* the body meets every requirement of the JSON branch of POST /api/tasks
ValidCreateBody(b) ==
    /\ HasStr(b, DescriptionKey)
    /\ strip(b.data.d[DescriptionKey].s) # <<>>

\* C1: a POST /api/tasks request whose content type contains application/json
\* and whose body violates a requirement is answered 400 with {"error": msg},
\* never 201 or 500.
C1_InvalidCreateIs400 ==
    (/\ Responded("POST")
     /\ ContentTypeContains(request.content_type, "application/json")
     /\ ~ValidCreateBody(request.body))
    => (response.status = 400 /\ ErrorShaped(response))

\* C2: a POST /api/tasks JSON request whose body is an object without the key
\* description (the empty object included) is answered 400 with
\* {"error": "Description field is required"}.
C2_MissingDescriptionMessage ==
    (/\ Responded("POST")
     /\ JsonRequest(request)
     /\ IsObject(request.body)
     /\ DescriptionKey \notin DOMAIN request.body.data.d)
    => /\ response.status = 400
       /\ ErrorShaped(response)
       /\ response.body.error = "Description field is required"

\* C6: a POST /api/tasks JSON request whose body is an object with a string
\* description that is non-empty after trimming is answered 201 with the
\* serialized Task: exactly the keys id, description, completed, created_at,
\* the description trimmed, completed false, the id non-empty.
C6_ValidCreateIs201 ==
    (/\ Responded("POST")
     /\ JsonRequest(request)
     /\ ValidCreateBody(request.body))
    => /\ response.status = 201
       /\ response.mimetype = "application/json"
       /\ DOMAIN response.body = {"id", "description", "completed", "created_at"}
       /\ response.body.description = strip(request.body.data.d[DescriptionKey].s)
       /\ response.body.completed = FALSE
       /\ response.body.id # <<>>
       /\ response.body.created_at.type = "str"

C6_Witness ==
    /\ Responded("POST")
    /\ JsonRequest(request)
    /\ ValidCreateBody(request.body)
    /\ request.body.data.d[DescriptionKey].s = <<" ", "a", "\t">>
    /\ response.status = 201

\* the request meets the three requirements of PUT /api/tasks/<id>; the path
\* id counts as non-empty when it holds a character that is not whitespace
ValidUpdate(req) ==
    /\ strip(req.task_id) # <<>>
    /\ is_json(req)
    /\ IsObject(req.body)
    /\ CompletedKey \in DOMAIN req.body.data.d
    /\ req.body.data.d[CompletedKey].type = "bool"

\* C7: PUT /api/tasks/<id> answers 200 with {id, completed, message} for every
\* request with a non-empty path id, a JSON body and a boolean completed, and
\* 400 with {"error": msg} for every request that violates a requirement.
C7_UpdateContract ==
    Responded("PUT") =>
        IF ValidUpdate(request)
        THEN /\ response.status = 200
             /\ response.body =
                  [id |-> request.task_id,
                   completed |-> request.body.data.d[CompletedKey].b,
                   message |-> "Task updated successfully"]
        ELSE response.status = 400 /\ ErrorShaped(response)

DeletedOk ==
    /\ response.status = 200
    /\ response.mimetype = "application/json"
    /\ response.body = [id |-> request.task_id,
                        message |-> "Task deleted successfully"]

\* C8 as stated: DELETE /api/tasks/<id> answers 200 with {id, message} for
\* every non-empty path id, whatever the body or content type.
C8_DeleteNonEmptyId ==
    (Responded("DELETE") /\ request.task_id # <<>>) => DeletedOk

\* C8 amended: DELETE /api/tasks/<id> answers 200 with {id, message} for every
\* path id that is non-empty after trimming whitespace, whatever the body or
\* content type and whether or not a task with that id was ever created.
C8_DeleteNonBlankId ==
    (Responded("DELETE") /\ strip(request.task_id) # <<>>) => DeletedOk

C8_Witness ==
    /\ Responded("DELETE")
    /\ strip(request.task_id) # <<>>
    /\ request.task_id \notin Uuids
    /\ ~is_json(request)
    /\ request.body.kind = "malformed"
    /\ DeletedOk

\* the response without what each handling generates afresh
Core(res) ==
    IF res.status = 201 /\ res.mimetype = "application/json"
    THEN [status |-> res.status, mimetype |-> res.mimetype,
          body |-> [description |-> res.body.description,
                    completed |-> res.body.completed]]
    ELSE res

\* what the request gets when it is the only one the server ever handles
Alone(req) ==
    CASE req.method = "POST" ->
            {Core(create_task(req, u, now)) : u \in Uuids, now \in Datetimes}
      [] req.method = "PUT" -> {update_task(req)}
      [] req.method = "DELETE" -> {delete_task(req)}

====
